---- MODULE Spec2Model ----
(***************************************************************************)
(* Saino COC batch converter (src/main.py).                                *)
(*                                                                         *)
(* Several specifications over one set of variables:                       *)
(*   Spec        one BatchConvertThread.run from start() to the emission   *)
(*               of finished_signal, interleaved with cancel();            *)
(*   FairSpec    Spec with the worker thread scheduled fairly;             *)
(*   CancelSpec  a run of one source with repeated cancel() calls;         *)
(*   AsmSpec     one call of _make_cbz or of                               *)
(*               _make_pdf_from_images_with_progress on any page list;     *)
(*   ItemSpec    one call of _gather_images_for_item on a PDF or archive;  *)
(*   ScanSpec    one folder scan in natural order;                         *)
(*   ResolveSpec one source from its ContentsEditor to its resolution;     *)
(*   EditorSpec  the rows of the ContentsEditor selected and moved;        *)
(*   UISpec      the ImageToPDF window: the DPI controls, convert_dialog,  *)
(*               cancel_operation and the worker threads it starts;        *)
(*   SessionSpec the sources of the window, their temp directories and     *)
(*               the threads started on them.                              *)
(* The worker is a sequential process; pc is its position in the code.     *)
(* Every read of self._cancel is a step of its own, so that cancel() can   *)
(* fall between any two reads.                                             *)
(***************************************************************************)
EXTENDS Integers, Sequences, FiniteSets, TLC

\* ------------------------------------------------------------------ bounds
MaxSources == 2     \* sources of one job
MaxPages == 2       \* pages one source resolves to
MaxJobs == 2        \* worker threads one UI session starts
MaxFaults == 1      \* I/O errors and unreadable files the environment injects
MaxCancels == 2     \* calls of cancel() after the first one
MaxNames == 3       \* entries of one directory listing
MaxEntries == 3     \* entries the ContentsEditor lists for one source
MaxOpens == 2       \* temp directories the ContentsEditor creates in a session

VARIABLES
    \* BatchConvertThread.__init__
    total_sources, merge, out_format, cancel, temp_dirs,
    \* optional libraries (module level)
    HAS_IMG2PDF, HAS_PYPDF, HAS_FITZ,
    \* locals of run
    pc, si, cur, outputs, processed_sources, all_images, outp, res,
    \* locals of _gather_images_for_item
    g,
    \* locals of the assemblers and of the merge
    out_path, i, first, others, merger,
    \* the file system: output directory and temp directories
    disk, tmpfs,
    \* signals: every result emitted, the last message and the last progress
    \* value emitted (what the status label and the progress bar show)
    finished, message, progress,
    \* history: where cancel() fell, what was produced, what failed
    cancelAt, cancelPath, produced, created, failed, ioFault, faults,
    \* ImageToPDF (UISpec)
    dpi_cb, dpi_spin, dpi_spin_enabled, config_dpi, config_dpi_enabled,
    btn_cancel_op, batch_thread, threads, raster_calls, closed,
    \* history of the callers: calls of cancel() that found the flag set
    cancel_calls,
    \* one folder scan (ScanSpec): os.listdir's answer, the position, the result
    listing, scan_pc, scan,
    \* one source from its ContentsEditor to its resolution (ResolveSpec)
    files, content_override, missing, items, item_i, resolved, res_pc, raised_at,
    \* one call of _gather_images_for_item on a file (ItemSpec): the file, the
    \* patool flag, the position, imgs, the page index, the backends tried,
    \* whether a loop read the flag set, and the value returned
    item, HAS_PATOOL, it_pc, imgs, it_i, attempts, cancel_seen, it_ret,
    \* the rows selected in the list widget of the ContentsEditor (0-based)
    selected,
    \* ImageToPDF.sources, the temp directories of the ContentsEditor that
    \* exist, how many it created, and the module's _next_id
    sources, etmp, ecreated, next_id

cfgVars == <<total_sources, merge, out_format, HAS_IMG2PDF, HAS_PYPDF, HAS_FITZ>>
runVars == <<pc, si, cur, outputs, processed_sources, all_images, outp, res, g>>
asmVars == <<out_path, i, first, others, merger>>
envVars == <<disk, tmpfs, temp_dirs>>
sigVars == <<finished, message, progress>>
histVars == <<cancelAt, cancelPath, produced, created, failed, ioFault, faults>>
uiVars == <<dpi_cb, dpi_spin, dpi_spin_enabled, config_dpi, config_dpi_enabled,
            btn_cancel_op, batch_thread, threads, raster_calls, closed,
            cancel_calls, listing, scan_pc, scan,
            files, content_override, missing, items, item_i, resolved, res_pc,
            raised_at,
            item, HAS_PATOOL, it_pc, imgs, it_i, attempts, cancel_seen, it_ret,
            selected, sources, etmp, ecreated, next_id>>
srcVars == <<sources, etmp, ecreated, next_id>>
sessVars == <<selected, srcVars>>
itemVars == <<item, HAS_PATOOL, it_pc, imgs, it_i, attempts, cancel_seen, it_ret>>
resVars == <<files, content_override, missing, items, item_i, resolved, res_pc,
             raised_at>>
winVars == <<dpi_cb, dpi_spin, dpi_spin_enabled, config_dpi, config_dpi_enabled,
             btn_cancel_op, batch_thread, threads, raster_calls, closed>>
scanVars == <<listing, scan_pc, scan>>
vars == <<cfgVars, runVars, asmVars, envVars, sigVars, histVars, uiVars, cancel>>

\* ----------------------------------------------------------------- helpers
None == [none |-> TRUE]

Digits == {"0", "1", "2", "3", "4", "5", "6", "7", "8", "9"}
DigitChar == <<"0", "1", "2", "3", "4", "5", "6", "7", "8", "9">>

\* str.lower() on the extensions the model uses
Lower(e) ==
    CASE e = "JPG" -> "jpg"
      [] e = "PNG" -> "png"
      [] OTHER -> e

\* f"{n:04}": at least four digits, more when n needs them
RECURSIVE Decimal(_)
Decimal(n) == IF n < 10 THEN <<DigitChar[n + 1]>>
              ELSE Decimal(n \div 10) \o <<DigitChar[(n % 10) + 1]>>

RECURSIVE PadLeft(_, _)
PadLeft(s, w) == IF Len(s) >= w THEN s ELSE PadLeft(<<"0">> \o s, w)

Pad4(n) == PadLeft(Decimal(n), 4)

\* str.strip(chars)
RECURSIVE LStrip(_, _)
LStrip(s, cs) == IF s # <<>> /\ Head(s) \in cs THEN LStrip(Tail(s), cs) ELSE s

RECURSIVE RStrip(_, _)
RStrip(s, cs) == IF s # <<>> /\ s[Len(s)] \in cs
                 THEN RStrip(SubSeq(s, 1, Len(s) - 1), cs) ELSE s

Strip(s, cs) == RStrip(LStrip(s, cs), cs)

IsDigit(c) == c \in Digits

remove_numbers_from_name(s) ==
    Strip(Strip(SelectSeq(s, LAMBDA c : ~IsDigit(c)), {" "}), {"_", "-", " "})

RECURSIVE Flatten(_)
Flatten(ss) == IF ss = <<>> THEN <<>> ELSE Head(ss) \o Flatten(Tail(ss))

Range(s) == {s[k] : k \in DOMAIN s}

\* ------------------------------------------------------------- the inputs
Kinds == {"folder", "pdf", "archive"}
Labels == {<<"a", "1">>, <<"a", "_", "2">>, <<"7">>}
Exts == {"jpg", "PNG"}
\* a file a scan finds: its extension and whether an image library can read it
Files == [ext : Exts, ok : BOOLEAN]
Formats == {"PDF", "CBZ"}

Msg(tag, k) == [tag |-> tag, k |-> k]

Path(base, ext) == [base |-> base, ext |-> ext]
MergedPath == Path(<<"m", "e", "r", "g", "e", "d">>, "pdf")

Exists(p) == p \in DOMAIN disk
WriteFile(d, p, c) == (p :> c) @@ d
RemoveFile(d, p) == [q \in (DOMAIN d) \ {p} |-> d[q]]
FileOf(kind, pages, complete) == [kind |-> kind, pages |-> pages, complete |-> complete]

PageOf(s, k, f) == [src |-> s, n |-> k, ext |-> f.ext, ok |-> f.ok]

\* what a page contributes to an output file: the image itself
PageId(p) == [src |-> p.src, n |-> p.n]
PageIds(images) == [k \in DOMAIN images |-> PageId(images[k])]

\* pages a rasterized PDF yields (line 465: f"{i:04}.jpg", just written)
RasterFiles == {[ext |-> "jpg", ok |-> TRUE]}
\* the image files a folder or an extracted archive holds in a run of Spec
\* (AsmSpec draws the pages of a call from all of Files)
ScanFiles == [ext : {"jpg"}, ok : BOOLEAN]
FilesFor(kind) == IF kind = "pdf" THEN RasterFiles ELSE ScanFiles

\* int(processed_sources/total_sources*100)
Pct(p, n) == (p * 100) \div n

\* the environment injects one more fault (an I/O error, an unreadable file)
Inject == faults < MaxFaults /\ faults' = faults + 1

\* ------------------------------------------------------------------- Init
\* DEFAULT_CONFIG["dpi_value"]
DefaultDpi == 300
\* values of the DPI spin box (its range is 50..1200)
DpiValues == {72, DefaultDpi}

\* ImageToPDF.__init__ with the default configuration; no thread exists
InitWindow ==
    /\ dpi_cb = FALSE /\ dpi_spin = DefaultDpi /\ dpi_spin_enabled = FALSE
    /\ config_dpi = DefaultDpi /\ config_dpi_enabled = FALSE
    /\ btn_cancel_op = FALSE
    /\ batch_thread = 0 /\ threads = <<>> /\ raster_calls = {} /\ closed = FALSE

\* nothing of the other specifications is going on
IdleCalls == cancel_calls = 0
IdleScan == listing = <<>> /\ scan_pc = "idle" /\ scan = None
IdleResolve ==
    /\ files = <<>> /\ content_override = [set |-> FALSE, files |-> <<>>]
    /\ missing = {} /\ items = <<>> /\ item_i = 0 /\ resolved = <<>>
    /\ res_pc = "idle" /\ raised_at = 0

IdleItem ==
    /\ item = None /\ HAS_PATOOL = FALSE /\ it_pc = "idle" /\ imgs = <<>>
    /\ it_i = 0 /\ attempts = <<>> /\ cancel_seen = FALSE /\ it_ret = None

\* no editor row is selected; the window holds no source
IdleSources == sources = <<>> /\ etmp = {} /\ ecreated = 0 /\ next_id = 1
IdleSession == selected = {} /\ IdleSources

InitUIIdle ==
    InitWindow /\ IdleCalls /\ IdleScan /\ IdleResolve /\ IdleItem /\ IdleSession

\* BatchConvertThread.__init__ and the state run() starts from
InitThread ==
    /\ cancel = FALSE /\ temp_dirs = <<>>
    /\ cur = None /\ outputs = <<>> /\ processed_sources = 0
    /\ outp = None /\ res = <<>> /\ g = 0
    /\ i = 0 /\ first = None /\ others = <<>> /\ merger = <<>>
    /\ disk = [q \in {} |-> None] /\ tmpfs = {}
    /\ finished = <<>> /\ message = Msg("", 0) /\ progress = -1
    /\ cancelAt = "none" /\ cancelPath = None /\ produced = <<>>
    /\ created = 0 /\ failed = {} /\ ioFault = FALSE /\ faults = 0

Init ==
    /\ total_sources \in 1..MaxSources
    /\ merge \in BOOLEAN /\ out_format \in Formats
    \* img2pdf is consulted only on the PDF path (line 518) and PyPDF2 only for
    \* a PDF merge (line 415): elsewhere they are taken as absent
    /\ HAS_IMG2PDF \in (IF out_format = "PDF" THEN BOOLEAN ELSE {FALSE})
    /\ HAS_PYPDF \in (IF merge /\ out_format = "PDF" THEN BOOLEAN ELSE {FALSE})
    /\ HAS_FITZ \in BOOLEAN
    /\ pc = "start"
    /\ si = 0 /\ all_images = <<>> /\ out_path = None
    /\ InitThread /\ InitUIIdle

\* -------------------------------------------------- BatchConvertThread.run
AsmPcs == {"cbz_open", "cbz_loop", "pdf_entry", "pdf_emit", "pdf_check",
           "pil_first", "pil_loop", "pil_final"}

\* a cancel() that flips the flag
CancelToggles == ~cancel

\* what cancel() assigns: self._cancel = True
CancelAssigns == TRUE

\* cancel(): called from the UI thread at any moment of the run
Cancel ==
    /\ pc # "done" /\ ~cancel
    /\ cancel' = CancelAssigns
    /\ cancelAt' = IF pc \in AsmPcs THEN "asm" ELSE IF pc = "emit" THEN "late" ELSE "run"
    /\ cancelPath' = IF pc \in AsmPcs THEN out_path ELSE None
    /\ UNCHANGED <<faults, cfgVars, runVars, asmVars, envVars, sigVars, uiVars,
                   produced, created, failed, ioFault>>

\* os.makedirs(self.out_dir); total_sources; processed_sources = 0
Start ==
    /\ pc = "start"
    /\ \/ pc' = "loop" /\ UNCHANGED faults
       \/ pc' = "except" /\ Inject       \* os.makedirs raises
    /\ UNCHANGED <<cfgVars, si, cur, outputs, processed_sources, all_images, outp,
                   res, g, asmVars, envVars, sigVars, cancelAt, cancelPath,
                   produced, created, failed, ioFault, uiVars, cancel>>

\* a loop over the sources that never reads the flag
LoopHeadIgnoresCancel ==
    /\ pc = "loop"
    /\ IF si = total_sources
       THEN /\ pc' = "merge_check"
            /\ UNCHANGED <<si, cur, message, all_images>>
       ELSE /\ si' = si + 1
            /\ cur' = None
            /\ message' = (Msg("processing", si + 1))
            /\ all_images' = <<>>
            /\ pc' = "items"
    /\ UNCHANGED <<cfgVars, outputs, processed_sources, outp, res, g, asmVars,
                   envVars, finished, progress, histVars, uiVars, cancel>>

\* for si, src in enumerate(self.sources, start=1): if self._cancel: break
\* (what the source is, holds and is called is drawn where the code reads it:
\* its kind in GatherEnter, its entries in GatherLoop, its label in Pages)
LoopHead ==
    /\ pc = "loop"
    /\ IF si = total_sources \/ cancel
       THEN /\ pc' = "merge_check"
            /\ UNCHANGED <<si, cur, message, all_images>>
       ELSE /\ si' = si + 1
            /\ cur' = None
            /\ message' = (Msg("processing", si + 1))
            /\ all_images' = <<>>
            /\ pc' = "items"
    /\ UNCHANGED <<cfgVars, outputs, processed_sources, outp, res, g, asmVars,
                   envVars, finished, progress, histVars, uiVars, cancel>>

\* for it in items: if self._cancel: break
Items ==
    /\ pc = "items"
    /\ pc' = IF cancel THEN "pages" ELSE "gather"
    /\ UNCHANGED <<cfgVars, si, cur, outputs, processed_sources, all_images, outp,
                   res, g, asmVars, envVars, sigVars, histVars, uiVars, cancel>>

\* tmp=tempfile.mkdtemp(...); self._temp_dirs.append(tmp)
MkdtempRegistered == Append(temp_dirs, created + 1)

\* _gather_images_for_item up to its page loop: the directory listing, or the
\* temp directory and the opening / extraction of the file
GatherEnter ==
    /\ pc = "gather"
    /\ g' = 0
    /\ \E k \in Kinds :
        /\ cur' = [kind |-> k]
        /\ \/ /\ k = "folder"
              /\ pc' = "g_loop"
              /\ UNCHANGED <<message, tmpfs, temp_dirs, created, faults>>
           \/ /\ k = "folder" \/ (k = "pdf" /\ HAS_FITZ) \/ k = "archive"
              /\ pc' = "except"     \* os.listdir / tempfile.mkdtemp raises
              /\ Inject
              /\ UNCHANGED <<message, tmpfs, temp_dirs, created>>
           \/ /\ k = "pdf" /\ ~HAS_FITZ
              /\ message' = (Msg("pdf_render_req", si))
              /\ pc' = "pages"
              /\ UNCHANGED <<tmpfs, temp_dirs, created, faults>>
           \/ /\ (k = "pdf" /\ HAS_FITZ) \/ k = "archive"
              /\ tmpfs' = tmpfs \cup {created + 1}
              /\ temp_dirs' = MkdtempRegistered
              /\ created' = created + 1
              /\ \/ pc' = "g_loop" /\ UNCHANGED <<message, faults>>
                 \/ /\ pc' = "pages"    \* fitz.open raises / every backend fails
                    /\ Inject
                    /\ message' = (Msg(IF k = "pdf" THEN "pdf_render_error"
                               ELSE "cannot_extract", si))
    /\ UNCHANGED <<cfgVars, si, outputs, processed_sources, all_images, outp,
                   res, asmVars, disk, finished, progress, cancelAt, cancelPath,
                   produced, failed, ioFault, uiVars, cancel>>

\* the loop of _gather_images_for_item over the entries of the directory, the
\* pages of the document or the extracted files: if self._cancel: break
GatherLoop ==
    /\ pc = "g_loop"
    /\ \/ /\ pc' = "pages"            \* no entry is left
          /\ UNCHANGED <<g, all_images, message, faults>>
       \/ /\ g < MaxPages             \* one more entry
          /\ IF cancel
             THEN pc' = "pages" /\ UNCHANGED <<g, all_images, message, faults>>
             ELSE \/ /\ \E f \in FilesFor(cur.kind) :
                          /\ all_images' = Append(all_images, PageOf(si, g + 1, f))
                          /\ IF f.ok THEN UNCHANGED faults ELSE Inject
                     /\ g' = g + 1
                     /\ UNCHANGED <<pc, message>>
                  \/ /\ cur.kind = "pdf"      \* get_pixmap / save raises
                     /\ Inject
                     /\ message' = (Msg("pdf_render_error", si))
                     /\ pc' = "pages"
                     /\ UNCHANGED <<g, all_images>>
    /\ UNCHANGED <<cfgVars, si, cur, outputs, processed_sources, outp, res,
                   asmVars, envVars, finished, progress, cancelAt, cancelPath,
                   produced, created, failed, ioFault, uiVars, cancel>>

\* base_name = remove_numbers_from_name(label) or f"source{id}"
BaseName(src) ==
    IF remove_numbers_from_name(src.label) # <<>>
    THEN remove_numbers_from_name(src.label)
    ELSE <<"s", "o", "u", "r", "c", "e">> \o Decimal(src.id)

\* out_name = base_name if not self.merge else "merged"
OutName(src) == IF ~merge THEN BaseName(src) ELSE MergedPath.base

\* out_path=os.path.join(out_dir, f"{base_name}.cbz") / f"{base_name}.pdf"
OutPath(src) == Path(OutName(src), IF out_format = "CBZ" THEN "cbz" ELSE "pdf")

\* page_total==0: continue; else: if self._cancel: break; call the assembler
Pages ==
    /\ pc = "pages"
    /\ IF all_images = <<>>
       THEN /\ message' = (Msg("no_pages", si))
            /\ processed_sources' = processed_sources + 1
            /\ progress' = (Pct(processed_sources + 1, total_sources))
            /\ pc' = "loop"
            /\ cur' = None /\ g' = 0
            /\ UNCHANGED <<out_path, all_images>>
       ELSE /\ IF cancel
               THEN /\ pc' = "merge_check"
                    /\ cur' = None /\ g' = 0 /\ all_images' = <<>>
                    /\ UNCHANGED out_path
               ELSE /\ pc' = IF out_format = "CBZ" THEN "cbz_open" ELSE "pdf_entry"
                    /\ \E l \in Labels : out_path' = OutPath([label |-> l, id |-> si])
                    /\ cur' = None /\ g' = 0
                    /\ UNCHANGED all_images
            /\ UNCHANGED <<message, processed_sources, progress>>
    /\ UNCHANGED <<cfgVars, si, outputs, outp, res, i, first, others, merger,
                   envVars, finished, histVars, uiVars, cancel>>

\* a loop that breaks when the assembler returned None
RetAsmBreaksOnNone ==
    /\ pc = "ret_asm"
    /\ outputs' = IF outp # None THEN Append(outputs, outp) ELSE outputs
    /\ produced' = IF outp # None /\ out_format = "PDF" /\ merge
                   THEN Append(produced, disk[outp].pages) ELSE produced
    /\ IF cancel \/ outp = None
       THEN pc' = "merge_check" /\ UNCHANGED <<processed_sources, progress>>
       ELSE /\ processed_sources' = processed_sources + 1
            /\ progress' = (Pct(processed_sources + 1, total_sources))
            /\ pc' = "loop"
    \* the locals of this iteration are dead from here on
    /\ cur' = None /\ g' = 0 /\ all_images' = <<>> /\ outp' = None
    /\ out_path' = None /\ i' = 0 /\ first' = None /\ others' = <<>>
    /\ failed' = {} /\ ioFault' = FALSE
    /\ UNCHANGED <<faults, cfgVars, si, res, merger, envVars, finished, message,
                   cancelAt, cancelPath, created, uiVars, cancel>>

\* if outp: outputs.append(outp); if self._cancel: break; processed_sources += 1
RetAsm ==
    /\ pc = "ret_asm"
    /\ outputs' = IF outp # None THEN Append(outputs, outp) ELSE outputs
    /\ produced' = IF outp # None /\ out_format = "PDF" /\ merge
                   THEN Append(produced, disk[outp].pages) ELSE produced
    /\ IF cancel
       THEN pc' = "merge_check" /\ UNCHANGED <<processed_sources, progress>>
       ELSE /\ processed_sources' = processed_sources + 1
            /\ progress' = (Pct(processed_sources + 1, total_sources))
            /\ pc' = "loop"
    \* the locals of this iteration are dead from here on
    /\ cur' = None /\ g' = 0 /\ all_images' = <<>> /\ outp' = None
    /\ out_path' = None /\ i' = 0 /\ first' = None /\ others' = <<>>
    /\ failed' = {} /\ ioFault' = FALSE
    /\ UNCHANGED <<faults, cfgVars, si, res, merger, envVars, finished, message,
                   cancelAt, cancelPath, created, uiVars, cancel>>

\* if self.merge and self.out_format=='PDF' and outputs and not self._cancel and HAS_PYPDF
MergeCheck ==
    /\ pc = "merge_check"
    /\ IF merge /\ out_format = "PDF" /\ outputs # <<>> /\ ~cancel /\ HAS_PYPDF
       THEN pc' = "merge_loop" /\ i' = 0 /\ merger' = <<>>
       ELSE pc' = "cleanup" /\ UNCHANGED <<i, merger>>
    /\ UNCHANGED <<cfgVars, si, cur, outputs, processed_sources, all_images, outp,
                   res, g, out_path, first, others, envVars, sigVars, histVars,
                   uiVars, cancel>>

\* for p in outputs: if self._cancel: break; merger.append(p)
MergeLoop ==
    /\ pc = "merge_loop"
    /\ IF i = Len(outputs) \/ cancel
       THEN pc' = "merge_write" /\ UNCHANGED <<i, merger, message>>
       ELSE IF Exists(outputs[i + 1]) /\ disk[outputs[i + 1]].complete
            THEN /\ merger' = merger \o disk[outputs[i + 1]].pages
                 /\ i' = i + 1
                 /\ UNCHANGED <<pc, message>>
            ELSE /\ message' = (Msg("merge_failed", 0))
                 /\ pc' = "cleanup"
                 /\ UNCHANGED <<i, merger>>
    /\ UNCHANGED <<cfgVars, si, cur, outputs, processed_sources, all_images, outp,
                   res, g, out_path, first, others, envVars, finished, progress,
                   histVars, uiVars, cancel>>

\* if not self._cancel: open(merged,"wb"); merger.write(f); outputs=[merged]
MergeWrite ==
    /\ pc = "merge_write"
    /\ pc' = "cleanup"
    /\ IF cancel
       THEN UNCHANGED <<disk, outputs, message, faults>>
       ELSE \/ /\ disk' = WriteFile(disk, MergedPath, FileOf("pdf", merger, TRUE))
               /\ outputs' = <<MergedPath>>
               /\ message' = (Msg("merged", 0))
               /\ UNCHANGED faults
            \/ /\ disk' = WriteFile(disk, MergedPath, FileOf("pdf", <<>>, FALSE))
               /\ message' = (Msg("merge_failed", 0))  \* merger.write raises
               /\ Inject
               /\ UNCHANGED outputs
    /\ UNCHANGED <<cfgVars, si, cur, processed_sources, all_images, outp, res, g,
                   asmVars, tmpfs, temp_dirs, finished, progress, cancelAt,
                   cancelPath, produced, created, failed, ioFault, uiVars, cancel>>

\* a _cleanup that removes nothing
TmpfsKept == tmpfs

\* _cleanup: shutil.rmtree(d, ignore_errors=True) for d in self._temp_dirs
CleanedTmpfs == tmpfs \ Range(temp_dirs)

Cleanup ==
    /\ pc \in {"cleanup", "except"}
    /\ tmpfs' = CleanedTmpfs
    /\ temp_dirs' = <<>>
    /\ pc' = IF pc = "cleanup" THEN "emit_read" ELSE "except_emit"
    /\ UNCHANGED <<cfgVars, si, cur, outputs, processed_sources, all_images, outp,
                   res, g, asmVars, disk, sigVars, histVars, uiVars, cancel>>

\* an emit that hands over outputs whatever the flag says
OutputsRegardless == outputs

\* the argument of the emit on line 431: outputs if not self._cancel else []
EmitArg == IF ~cancel THEN outputs ELSE <<>>

EmitRead ==
    /\ pc = "emit_read"
    /\ res' = EmitArg
    /\ pc' = "emit"
    /\ UNCHANGED <<cfgVars, si, cur, outputs, processed_sources, all_images, outp,
                   g, asmVars, envVars, sigVars, histVars, uiVars, cancel>>

\* self.finished_signal.emit(...)
Emit ==
    /\ pc = "emit"
    /\ finished' = Append(finished, res)
    /\ pc' = "done"
    /\ UNCHANGED <<cfgVars, si, cur, outputs, processed_sources, all_images, outp,
                   res, g, asmVars, envVars, message, progress, histVars, uiVars,
                   cancel>>

\* an except clause that swallows the error and emits nothing
ExceptSwallow ==
    /\ pc = "except_emit"
    /\ message' = (Msg("worker_error", 0))
    /\ pc' = "done"
    /\ UNCHANGED <<cfgVars, si, cur, outputs, processed_sources, all_images, outp,
                   res, g, asmVars, envVars, finished, progress, histVars, uiVars,
                   cancel>>

\* an except clause that reports what had been produced so far
ExceptEmitOutputs ==
    /\ pc = "except_emit"
    /\ message' = (Msg("worker_error", 0))
    /\ finished' = Append(finished, outputs)
    /\ pc' = "done"
    /\ UNCHANGED <<cfgVars, si, cur, outputs, processed_sources, all_images, outp,
                   res, g, asmVars, envVars, progress, histVars, uiVars, cancel>>

\* except Exception: ...; self.message.emit("Worker error"); self.finished_signal.emit([])
ExceptEmit ==
    /\ pc = "except_emit"
    /\ message' = (Msg("worker_error", 0))
    /\ finished' = Append(finished, <<>>)
    /\ pc' = "done"
    /\ UNCHANGED <<cfgVars, si, cur, outputs, processed_sources, all_images, outp,
                   res, g, asmVars, envVars, progress, histVars, uiVars, cancel>>

\* ---------------------------------------------------------------- _make_cbz
\* entry names counted from zero
ArcNameZeroBased(k, p) == [stem |-> Pad4(k - 1), ext |-> Lower(p.ext)]

\* arc=f"{i:04}{os.path.splitext(p)[1].lower()}"
ArcName(k, p) == [stem |-> Pad4(k), ext |-> Lower(p.ext)]

ZipEntry(k, p) == [name |-> ArcName(k, p), page |-> PageId(p)]

\* os.makedirs; zipfile.ZipFile(out_path,'w') creates or truncates the file
CbzOpen ==
    /\ pc = "cbz_open"
    /\ \/ /\ disk' = WriteFile(disk, out_path, FileOf("cbz", <<>>, FALSE))
          /\ i' = 0
          /\ pc' = "cbz_loop"
          /\ UNCHANGED <<outp, message, ioFault, faults>>
       \/ /\ message' = (Msg("cbz_error", si))   \* the open raises
          /\ Inject
          /\ outp' = None
          /\ ioFault' = TRUE
          /\ pc' = "ret_asm"
          /\ UNCHANGED <<disk, i>>
    /\ UNCHANGED <<cfgVars, si, cur, outputs, processed_sources, all_images, res, g,
                   out_path, first, others, merger, tmpfs, temp_dirs, finished,
                   progress, cancelAt, cancelPath, produced, created, failed,
                   uiVars, cancel>>

\* for i,p in enumerate(images, start=1): if self._cancel: remove, return None;
\* try: z.write(p,arc) except: pass.  After the loop the with block closes z.
CbzLoop ==
    /\ pc = "cbz_loop"
    /\ IF i = Len(all_images)
       THEN /\ pc' = "ret_asm"
            /\ \/ /\ disk' = WriteFile(disk, out_path,
                                       FileOf("cbz", disk[out_path].pages, TRUE))
                  /\ outp' = out_path
                  /\ UNCHANGED <<message, ioFault, faults>>
               \/ /\ message' = (Msg("cbz_error", si)) \* close raises
                  /\ Inject
                  /\ outp' = None
                  /\ ioFault' = TRUE
                  /\ UNCHANGED disk
            /\ UNCHANGED <<i, failed>>
       ELSE IF cancel
            THEN /\ disk' = RemoveFile(disk, out_path)
                 /\ outp' = None
                 /\ pc' = "ret_asm"
                 /\ UNCHANGED <<i, failed, message, ioFault, faults>>
            ELSE /\ IF all_images[i + 1].ok
                    THEN /\ disk' = WriteFile(disk, out_path,
                                 FileOf("cbz", Append(disk[out_path].pages,
                                        ZipEntry(i + 1, all_images[i + 1])), FALSE))
                         /\ UNCHANGED failed
                    ELSE /\ failed' = failed \cup {i + 1}
                         /\ UNCHANGED disk
                 /\ i' = i + 1
                 /\ UNCHANGED <<pc, outp, message, ioFault, faults>>
    /\ UNCHANGED <<cfgVars, si, cur, outputs, processed_sources, all_images, res, g,
                   out_path, first, others, merger, tmpfs, temp_dirs, finished,
                   progress, cancelAt, cancelPath, produced, created, uiVars, cancel>>

\* ------------------------------------- _make_pdf_from_images_with_progress
AllReadable(images) == \A k \in DOMAIN images : images[k].ok

\* lines 512-534: the early returns, then img2pdf when it is installed
PdfEntry ==
    /\ pc = "pdf_entry"
    /\ IF all_images = <<>> \/ cancel
       THEN /\ outp' = None /\ pc' = "ret_asm"
            /\ UNCHANGED <<disk, i, message, ioFault, faults>>
       ELSE \/ /\ message' = (Msg("pdf_error", si)) \* makedirs raises
               /\ Inject
               /\ outp' = None /\ ioFault' = TRUE /\ pc' = "ret_asm"
               /\ UNCHANGED <<disk, i>>
            \/ /\ ~HAS_IMG2PDF
               /\ pc' = "pil_first"
               /\ UNCHANGED <<disk, i, outp, message, ioFault, faults>>
            \/ /\ HAS_IMG2PDF /\ AllReadable(all_images)
               /\ disk' = WriteFile(disk, out_path, FileOf("pdf", PageIds(all_images), TRUE))
               /\ i' = 0
               /\ pc' = "pdf_emit"
               /\ UNCHANGED <<outp, message, ioFault, faults>>
            \/ /\ HAS_IMG2PDF       \* open(out_path,"wb"), then convert raises:
               \* on an unreadable page, or on an image it refuses
               /\ IF AllReadable(all_images) THEN Inject ELSE UNCHANGED faults
               /\ disk' = WriteFile(disk, out_path, FileOf("pdf", <<>>, FALSE))
               /\ message' = (Msg("img2pdf_failed", si))
               /\ pc' = "pil_first"
               /\ UNCHANGED <<i, outp, ioFault>>
    /\ UNCHANGED <<cfgVars, si, cur, outputs, processed_sources, all_images, res, g,
                   out_path, first, others, merger, tmpfs, temp_dirs, finished,
                   progress, cancelAt, cancelPath, produced, created, failed,
                   uiVars, cancel>>

\* for i in range(1,len(images)+1): if self._cancel: break; self.detailed.emit
PdfEmit ==
    /\ pc = "pdf_emit"
    /\ IF i = Len(all_images) \/ cancel
       THEN pc' = "pdf_check" /\ UNCHANGED i
       ELSE i' = i + 1 /\ UNCHANGED pc
    /\ UNCHANGED <<cfgVars, si, cur, outputs, processed_sources, all_images, outp,
                   res, g, out_path, first, others, merger, envVars, sigVars,
                   histVars, uiVars, cancel>>

\* if self._cancel: os.remove(out_path); return None.  return out_path
PdfCheck ==
    /\ pc = "pdf_check"
    /\ IF cancel
       THEN disk' = RemoveFile(disk, out_path) /\ outp' = None
       ELSE outp' = out_path /\ UNCHANGED disk
    /\ pc' = "ret_asm"
    /\ UNCHANGED <<cfgVars, si, cur, outputs, processed_sources, all_images, res, g,
                   asmVars, tmpfs, temp_dirs, sigVars, histVars, uiVars, cancel>>

\* first=Image.open(images[0]), outside every inner try
PilFirst ==
    /\ pc = "pil_first"
    /\ IF all_images[1].ok
       THEN /\ first' = all_images[1] /\ others' = <<>> /\ i' = 1
            /\ pc' = "pil_loop"
            /\ UNCHANGED <<outp, message, failed>>
       ELSE /\ message' = (Msg("pdf_error", si))
            /\ failed' = failed \cup {1}
            /\ outp' = None
            /\ pc' = "ret_asm"
            /\ UNCHANGED <<first, others, i>>
    /\ UNCHANGED <<faults, cfgVars, si, cur, outputs, processed_sources, all_images, res, g,
                   out_path, merger, envVars, finished, progress, cancelAt,
                   cancelPath, produced, created, ioFault, uiVars, cancel>>

\* for idx,p in enumerate(images[1:], start=2): cancel check; Image.open in a try
PilLoop ==
    /\ pc = "pil_loop"
    /\ IF i = Len(all_images)
       THEN pc' = "pil_final" /\ UNCHANGED <<i, first, others, outp, failed>>
       ELSE IF cancel
            THEN /\ first' = None /\ others' = <<>>
                 /\ outp' = None
                 /\ pc' = "ret_asm"
                 /\ UNCHANGED <<i, failed>>
            ELSE /\ IF all_images[i + 1].ok
                    THEN others' = Append(others, all_images[i + 1]) /\ UNCHANGED failed
                    ELSE failed' = failed \cup {i + 1} /\ UNCHANGED others
                 /\ i' = i + 1
                 /\ UNCHANGED <<pc, first, outp>>
    /\ UNCHANGED <<faults, cfgVars, si, cur, outputs, processed_sources, all_images, res, g,
                   out_path, merger, envVars, sigVars, cancelAt, cancelPath,
                   produced, created, ioFault, uiVars, cancel>>

\* if self._cancel: close, return None.  first.save(out_path, save_all=True, ...)
PilFinal ==
    /\ pc = "pil_final"
    /\ pc' = "ret_asm"
    /\ IF cancel
       THEN /\ first' = None /\ others' = <<>>
            /\ outp' = None
            /\ UNCHANGED <<disk, message, ioFault, faults>>
       ELSE \/ /\ disk' = WriteFile(disk, out_path,
                                    FileOf("pdf", PageIds(<<first>> \o others), TRUE))
               /\ first' = None /\ others' = <<>>
               /\ outp' = out_path
               /\ UNCHANGED <<message, ioFault, faults>>
            \/ /\ Inject
               /\ disk' = WriteFile(disk, out_path, FileOf("pdf", <<>>, FALSE))
               /\ message' = (Msg("pdf_error", si)) \* save raises
               /\ outp' = None
               /\ ioFault' = TRUE
               /\ UNCHANGED <<first, others>>
    /\ UNCHANGED <<cfgVars, si, cur, outputs, processed_sources, all_images, res, g,
                   out_path, i, merger, tmpfs, temp_dirs, finished, progress,
                   cancelAt, cancelPath, produced, created, failed, uiVars, cancel>>

Assemble == CbzOpen \/ CbzLoop \/ PdfEntry \/ PdfEmit \/ PdfCheck
            \/ PilFirst \/ PilLoop \/ PilFinal

\* one call of an assembler: any page list of up to MaxPages files
AsmInputs == UNION {[1..n -> Files] : n \in 0..MaxPages}

InitAsm ==
    /\ total_sources = 1 /\ merge = FALSE /\ out_format \in Formats
    /\ HAS_IMG2PDF \in (IF out_format = "PDF" THEN BOOLEAN ELSE {FALSE})
    /\ HAS_PYPDF = FALSE /\ HAS_FITZ = FALSE
    /\ si = 1
    /\ \E fs \in AsmInputs : all_images = [k \in DOMAIN fs |-> PageOf(1, k, fs[k])]
    /\ out_path = OutPath([label |-> <<"a", "1">>, id |-> 1])
    /\ pc = IF out_format = "CBZ" THEN "cbz_open" ELSE "pdf_entry"
    /\ InitThread /\ InitUIIdle

\* --------------------------------------------------------------- ImageToPDF
\* content_override: None, [], paths outside the editor's temp directories,
\* or paths inside the temp directory dir
NoOverride == [kind |-> "none", dir |-> 0]
OverrideKinds == {"none", "empty", "path", "temp"}

\* make_source: "temp": None, "content_override": None (temp 0 is None)
Source(id, type) == [id |-> id, type |-> type, temp |-> 0, override |-> NoOverride]
SourceTypes == {"archive", "folder"}

\* a BatchConvertThread as the window sees it; thread_sources=[s.copy() ...]
NewThread(dpi, custom) ==
    [cancel |-> FALSE, st |-> "running", dpi |-> dpi, custom |-> custom, page |-> 0,
     sources |-> sources]

InitUI ==
    /\ total_sources = 1 /\ merge = FALSE /\ out_format = "PDF"
    /\ HAS_IMG2PDF = FALSE /\ HAS_PYPDF = FALSE /\ HAS_FITZ \in BOOLEAN
    /\ pc = "idle" /\ si = 0 /\ all_images = <<>> /\ out_path = None
    /\ InitThread
    \* CONFIG as load_json left it; the widgets are built from it
    /\ config_dpi \in DpiValues /\ config_dpi_enabled \in BOOLEAN
    /\ dpi_cb = config_dpi_enabled /\ dpi_spin = config_dpi
    /\ dpi_spin_enabled = config_dpi_enabled
    /\ btn_cancel_op = FALSE
    /\ batch_thread = 0 /\ threads = <<>> /\ raster_calls = {} /\ closed = FALSE
    /\ IdleCalls /\ IdleScan /\ IdleResolve /\ IdleItem
    \* one folder had been added: convert_dialog refuses an empty list
    /\ selected = {}
    /\ sources = <<Source(1, "folder")>> /\ etmp = {} /\ ecreated = 0
    /\ next_id = 2

notUI == <<cfgVars, runVars, asmVars, envVars, sigVars, histVars, cancel,
           cancel_calls, scanVars, resVars, itemVars, sessVars>>
notUI_but_res == <<cfgVars, runVars, asmVars, envVars, sigVars, histVars, cancel,
                   cancel_calls, scanVars, itemVars>>
notUI_but_sess == <<cfgVars, runVars, asmVars, envVars, sigVars, histVars, cancel,
                    cancel_calls, scanVars, resVars, itemVars>>

\* the user toggles the check box: CONFIG['dpi_enabled'] = (s==Qt.Checked)
on_dpi_cb ==
    /\ ~closed
    /\ dpi_cb' = ~dpi_cb
    /\ config_dpi_enabled' = ~dpi_cb
    /\ UNCHANGED <<notUI, dpi_spin, dpi_spin_enabled, config_dpi, btn_cancel_op,
                   batch_thread, threads, raster_calls, closed>>

\* the user edits the spin box, which setEnabled left usable or not
dpi_spin_edit ==
    /\ ~closed /\ dpi_spin_enabled
    /\ \E v \in DpiValues \ {dpi_spin} : dpi_spin' = v
    /\ UNCHANGED <<notUI, dpi_cb, dpi_spin_enabled, config_dpi, config_dpi_enabled,
                   btn_cancel_op, batch_thread, threads, raster_calls, closed>>

\* dpi = self.dpi_spin.value() if self.dpi_cb.isChecked() else CONFIG.get("dpi_value",300)
SubmittedDpi == IF dpi_cb THEN dpi_spin ELSE config_dpi

\* convert_dialog with every dialog answered: a new thread replaces
\* self.batch_thread and is started
convert_dialog ==
    /\ ~closed /\ Len(threads) < MaxJobs
    /\ sources # <<>>
    /\ threads' = Append(threads, NewThread(SubmittedDpi, dpi_cb))
    /\ batch_thread' = Len(threads) + 1
    /\ btn_cancel_op' = TRUE
    /\ UNCHANGED <<notUI, dpi_cb, dpi_spin, dpi_spin_enabled, config_dpi,
                   config_dpi_enabled, raster_calls, closed>>

\* if self.batch_thread: self.batch_thread.cancel(); setEnabled(False)
cancel_operation ==
    /\ ~closed /\ btn_cancel_op
    /\ batch_thread # 0
    /\ threads' = [threads EXCEPT ![batch_thread].cancel = TRUE]
    /\ btn_cancel_op' = FALSE
    /\ UNCHANGED <<notUI, dpi_cb, dpi_spin, dpi_spin_enabled, config_dpi,
                   config_dpi_enabled, batch_thread, raster_calls, closed>>

\* if self._cancel: break; pix=page.get_pixmap(dpi=self.dpi)
get_pixmap(t) ==
    /\ HAS_FITZ
    /\ threads[t].st = "running" /\ ~threads[t].cancel
    /\ threads[t].page < MaxPages
    /\ threads' = [threads EXCEPT ![t].page = @ + 1]
    /\ raster_calls' = raster_calls \cup
          {[custom |-> threads[t].custom, explicit |-> TRUE, dpi |-> threads[t].dpi]}
    /\ UNCHANGED <<notUI, dpi_cb, dpi_spin, dpi_spin_enabled, config_dpi,
                   config_dpi_enabled, btn_cancel_op, batch_thread, closed>>

\* finished_signal reaches on_finished: btn_cancel_op.setVisible(False)
on_finished(t) ==
    /\ threads[t].st = "running"
    /\ threads' = [threads EXCEPT ![t].st = "finished"]
    /\ btn_cancel_op' = FALSE
    /\ UNCHANGED <<notUI, dpi_cb, dpi_spin, dpi_spin_enabled, config_dpi,
                   config_dpi_enabled, batch_thread, raster_calls, closed>>

\* the temp directories the sources of s own: s.get("temp")
TempsOf(s) == {s[k].temp : k \in DOMAIN s} \ {0}

\* CONFIG['dpi_enabled']=self.dpi_cb.isChecked(); CONFIG['dpi_value']=self.dpi_spin.value()
\* for s in self.sources: if s.get("temp"): shutil.rmtree(s["temp"], ...)
closeEvent ==
    /\ ~closed
    /\ config_dpi_enabled' = dpi_cb
    /\ config_dpi' = dpi_spin
    /\ etmp' = etmp \ TempsOf(sources)
    /\ closed' = TRUE
    /\ UNCHANGED <<notUI_but_sess, selected, sources, ecreated, next_id, dpi_cb,
                   dpi_spin, dpi_spin_enabled, btn_cancel_op, batch_thread,
                   threads, raster_calls>>

Rasterize == \E t \in DOMAIN threads : get_pixmap(t)
Finish == \E t \in DOMAIN threads : on_finished(t)

\* ------------------------------------------------ natural_sort_key, the scan
\* the characters of the file names, in code point order; ".png" and ".txt"
\* stand for the extension that ends a name
Chars == <<".png", ".txt", "0", "1", "2", "I", "i", "²">>
Ord(c) == CHOOSE k \in DOMAIN Chars : Chars[k] = c

\* str.lower() on one character
LowerChar(c) == IF c = "I" THEN "i" ELSE c
lower(s) == [k \in DOMAIN s |-> LowerChar(s[k])]

\* what \d matches and int() accepts, and what str.isdigit() accepts besides
DecimalChars == {"0", "1", "2"}
IsdigitChars == DecimalChars \cup {"²"}

\* the longest prefix of s whose characters are all \d (d) or all not \d (~d)
RECURSIVE Run(_, _)
Run(s, d) ==
    IF s = <<>> \/ (Head(s) \in DecimalChars) # d THEN <<>>
    ELSE <<Head(s)>> \o Run(Tail(s), d)

\* re.split(r'(\d+)', s), from a position where a run of kind d is due
RECURSIVE re_split(_, _)
re_split(s, d) ==
    LET r == Run(s, d)
        rest == SubSeq(s, Len(r) + 1, Len(s))
    IN IF rest = <<>> THEN (IF d THEN <<r, <<>>>> ELSE <<r>>)
       ELSE <<r>> \o re_split(rest, ~d)

\* x.isdigit()
isdigit(x) == x # <<>> /\ \A k \in DOMAIN x : x[k] \in IsdigitChars

\* int(x) for a run of decimal characters
RECURSIVE int(_)
int(x) == IF x = <<>> THEN 0
          ELSE 10 * int(SubSeq(x, 1, Len(x) - 1)) + (Ord(x[Len(x)]) - Ord("0"))

\* int(x) if x.isdigit() else x.lower(); int() raises ValueError on a run
\* that isdigit() accepts and that holds a character \d does not match
KeyElem(x) ==
    IF isdigit(x)
    THEN IF \A k \in DOMAIN x : x[k] \in DecimalChars
         THEN [t |-> "int", n |-> int(x), s |-> <<>>]
         ELSE [t |-> "ValueError", n |-> 0, s |-> x]
    ELSE [t |-> "str", n |-> 0, s |-> lower(x)]

natural_sort_key(s) ==
    LET runs == re_split(s, FALSE) IN [k \in DOMAIN runs |-> KeyElem(runs[k])]

KeyRaises(s) ==
    \E k \in DOMAIN natural_sort_key(s) : natural_sort_key(s)[k].t = "ValueError"

\* str < str
RECURSIVE StrLess(_, _)
StrLess(a, b) ==
    IF b = <<>> THEN FALSE
    ELSE IF a = <<>> THEN TRUE
    ELSE IF Ord(Head(a)) # Ord(Head(b)) THEN Ord(Head(a)) < Ord(Head(b))
    ELSE StrLess(Tail(a), Tail(b))

\* two key elements Python can order: both int or both str
Comparable(x, y) == x.t = y.t /\ x.t \in {"int", "str"}
ElemLess(x, y) == IF x.t = "int" THEN x.n < y.n ELSE StrLess(x.s, y.s)

\* list < list: the first differing pair decides, else the shorter list
RECURSIVE KeyLess(_, _)
KeyLess(a, b) ==
    IF b = <<>> THEN FALSE
    ELSE IF a = <<>> THEN TRUE
    ELSE IF Head(a) = Head(b) THEN KeyLess(Tail(a), Tail(b))
    ELSE ElemLess(Head(a), Head(b))

\* list < list raises TypeError when the first differing pair is int and str
RECURSIVE KeyCompareRaises(_, _)
KeyCompareRaises(a, b) ==
    IF a = <<>> \/ b = <<>> THEN FALSE
    ELSE IF Head(a) = Head(b) THEN KeyCompareRaises(Tail(a), Tail(b))
    ELSE ~Comparable(Head(a), Head(b))

\* sorted() is stable: x goes behind every element that is not greater
RECURSIVE InsertByKey(_, _)
InsertByKey(x, s) ==
    IF s = <<>> THEN <<x>>
    ELSE IF KeyLess(natural_sort_key(x), natural_sort_key(Head(s)))
         THEN <<x>> \o s
         ELSE <<Head(s)>> \o InsertByKey(x, Tail(s))

RECURSIVE sorted(_)
sorted(s) == IF s = <<>> THEN <<>>
             ELSE InsertByKey(s[Len(s)], sorted(SubSeq(s, 1, Len(s) - 1)))

\* os.path.splitext(name)[1].lower() in IMAGE_EXTS
IsImageName(name) == name[Len(name)] = ".png"

\* the names a directory may hold
Names == {<<"i", "1", ".png">>, <<"i", "2", ".png">>, <<"i", "1", "0", ".png">>,
          <<"I", "2", ".png">>, <<"i", "0", "2", ".png">>, <<"i", "²", ".png">>,
          <<"²", "1", ".png">>, <<"i", "1", ".txt">>}

\* os.listdir: distinct names in any order
Listings ==
    {l \in UNION {[1..n -> Names] : n \in 0..MaxNames} :
        \A a, b \in DOMAIN l : a # b => l[a] # l[b]}

SortRaises(l) ==
    \/ \E k \in DOMAIN l : KeyRaises(l[k])
    \/ \E a, b \in DOMAIN l :
          KeyCompareRaises(natural_sort_key(l[a]), natural_sort_key(l[b]))

\* for name in sorted(os.listdir(item), key=natural_sort_key): ... imgs.append
ScanFolder ==
    /\ scan_pc = "list"
    /\ scan' = IF SortRaises(listing)
               THEN [raised |-> TRUE, imgs |-> <<>>]
               ELSE [raised |-> FALSE, imgs |-> SelectSeq(sorted(listing), IsImageName)]
    /\ scan_pc' = "done"
    /\ UNCHANGED <<cfgVars, runVars, asmVars, envVars, sigVars, histVars, cancel,
                   winVars, cancel_calls, listing, resVars, itemVars, sessVars>>

\* ------------------------------- ContentsEditor and the items of a source
\* what the editor lists: image files and folders; id 0 is the source's own path
EntryKinds == {"image", "folder"}
Entry(k, kind) == [id |-> k, kind |-> kind]
EditorLists ==
    UNION {{[k \in 1..n |-> Entry(k, ks[k])] : ks \in [1..n -> EntryKinds]} :
              n \in 0..MaxEntries}
SourcePath == Entry(0, "folder")

\* del self.files[i] for the selected rows
WithoutRows(s, sel) ==
    LET keep == {k \in DOMAIN s : k \notin sel}
        F[n \in 0..Len(s)] ==
            IF n = 0 THEN <<>>
            ELSE IF n \in keep THEN Append(F[n - 1], s[n]) ELSE F[n - 1]
    IN F[Len(s)]

\* ContentsEditor.delete_selected
editor_delete_selected ==
    /\ res_pc = "editor"
    /\ \E sel \in (SUBSET DOMAIN files) \ {{}} : files' = WithoutRows(files, sel)
    /\ UNCHANGED <<notUI_but_res, winVars, sessVars, content_override, missing, items,
                   item_i, resolved, res_pc, raised_at>>

\* ContentsEditor.accept: self.src["content_override"]=self.files.copy()
accept ==
    /\ res_pc = "editor"
    /\ content_override' = [set |-> TRUE, files |-> files]
    /\ res_pc' = "ready"
    /\ UNCHANGED <<notUI_but_res, winVars, sessVars, files, missing, items, item_i,
                   resolved, raised_at>>

\* ContentsEditor.reject: the source is left as it was
reject ==
    /\ res_pc = "editor"
    /\ res_pc' = "ready"
    /\ UNCHANGED <<notUI_but_res, winVars, sessVars, files, content_override, missing,
                   items, item_i, resolved, raised_at>>

\* a listed path is removed from the disk before the job resolves the source
Vanish ==
    /\ res_pc = "ready"
    /\ \E k \in DOMAIN content_override.files :
          /\ content_override.files[k].id \notin missing
          /\ missing' = missing \cup {content_override.files[k].id}
    /\ UNCHANGED <<notUI_but_res, winVars, sessVars, files, content_override, items,
                   item_i, resolved, res_pc, raised_at>>

\* items = src.get("content_override") or [src["path"]]: None and [] are falsy
OverrideOrPath ==
    IF content_override.set /\ content_override.files # <<>>
    THEN content_override.files ELSE <<SourcePath>>

ResolveItems ==
    /\ res_pc = "ready"
    /\ items' = OverrideOrPath
    /\ item_i' = 0
    /\ res_pc' = "item_loop"
    /\ UNCHANGED <<notUI_but_res, winVars, sessVars, files, content_override, missing,
                   resolved, raised_at>>

\* an entry on which the scan raises whatever it is
AnyItemMayRaise(e) == TRUE

\* _gather_images_for_item raises only from os.listdir and mkdtemp: a path
\* that is neither a directory nor a file reaches no statement that raises
ItemMayRaise(e) == e.kind = "folder" /\ e.id \notin missing

\* _gather_images_for_item(it): neither isdir nor isfile gives [];
\* an image file gives itself, a folder its images
ItemPages(e) ==
    IF e.id \in missing THEN <<>>
    ELSE IF e.kind = "image" THEN <<[from |-> e.id, n |-> 1]>>
    ELSE <<[from |-> e.id, n |-> 1], [from |-> e.id, n |-> 2]>>

\* for it in items: imgs = self._gather_images_for_item(it); all_images.extend(imgs)
GatherItem ==
    /\ res_pc = "item_loop"
    /\ IF item_i = Len(items)
       THEN res_pc' = "done" /\ UNCHANGED <<item_i, resolved, raised_at>>
       ELSE \/ /\ resolved' = resolved \o ItemPages(items[item_i + 1])
               /\ item_i' = item_i + 1
               /\ UNCHANGED <<res_pc, raised_at>>
            \/ /\ ItemMayRaise(items[item_i + 1])
               /\ raised_at' = item_i + 1
               /\ res_pc' = "except"
               /\ UNCHANGED <<item_i, resolved>>
    /\ UNCHANGED <<notUI_but_res, winVars, sessVars, files, content_override, missing, items>>

\* ------------------------- _gather_images_for_item on a PDF or an archive
Backends == {"patool", "7z", "unpack"}

\* a file item: a document of some pages, or an archive of some images that
\* the backends in works can extract
FileItems ==
    [kind : {"pdf"}, pages : 0..MaxPages, works : {{}}]
    \cup [kind : {"archive"}, pages : 0..MaxPages, works : SUBSET Backends]

\* the k-th file written or found in the temp directory
ItemImage(d, k) == [dir |-> d, n |-> k]

\* lines 455-459, 469-470: the renderer test, mkdtemp, fitz.open
ItemEnter ==
    /\ it_pc = "entry"
    /\ IF item.kind = "pdf" /\ ~HAS_FITZ
       THEN /\ message' = (Msg("pdf_render_req", 0))
            /\ it_ret' = [v |-> <<>>]
            /\ it_pc' = "ret"
            /\ UNCHANGED <<tmpfs, temp_dirs, created, faults>>
       ELSE \/ /\ Inject            \* tempfile.mkdtemp raises
               /\ it_pc' = "raised"
               /\ UNCHANGED <<tmpfs, temp_dirs, created, message, it_ret>>
            \/ /\ tmpfs' = tmpfs \cup {created + 1}
               /\ temp_dirs' = MkdtempRegistered
               /\ created' = created + 1
               /\ \/ /\ it_pc' = IF item.kind = "pdf" THEN "pages" ELSE "patool"
                     /\ UNCHANGED <<message, it_ret, faults>>
                  \/ /\ item.kind = "pdf"       \* fitz.open raises
                     /\ Inject
                     /\ message' = (Msg("pdf_render_error", 0))
                     /\ it_ret' = [v |-> imgs]
                     /\ it_pc' = "ret"
    /\ UNCHANGED <<cfgVars, runVars, asmVars, disk, finished, progress, cancelAt,
                   cancelPath, produced, failed, ioFault, cancel, winVars,
                   cancel_calls, scanVars, resVars, sessVars, item, HAS_PATOOL,
                   imgs, it_i, attempts, cancel_seen>>

\* for i,page in enumerate(doc, start=1): if self._cancel: break; get_pixmap;
\* save; imgs.append.  doc.close(); the except clause; return imgs
ItemPage ==
    /\ it_pc = "pages"
    /\ IF it_i = item.pages
       THEN /\ it_ret' = [v |-> imgs] /\ it_pc' = "ret"
            /\ UNCHANGED <<imgs, it_i, cancel_seen, message, faults>>
       ELSE IF cancel
            THEN /\ cancel_seen' = TRUE
                 /\ it_ret' = [v |-> imgs] /\ it_pc' = "ret"
                 /\ UNCHANGED <<imgs, it_i, message, faults>>
            ELSE \/ /\ imgs' = Append(imgs, ItemImage(created, it_i + 1))
                    /\ it_i' = it_i + 1
                    /\ UNCHANGED <<it_pc, it_ret, cancel_seen, message, faults>>
                 \/ /\ Inject       \* get_pixmap / save raises
                    /\ message' = (Msg("pdf_render_error", 0))
                    /\ it_ret' = [v |-> imgs] /\ it_pc' = "ret"
                    /\ UNCHANGED <<imgs, it_i, cancel_seen>>
    /\ UNCHANGED <<cfgVars, runVars, asmVars, envVars, finished, progress,
                   cancelAt, cancelPath, produced, created, failed, ioFault,
                   cancel, winVars, cancel_calls, scanVars, resVars, sessVars,
                   item, HAS_PATOOL, attempts>>

itemFrame == <<cfgVars, runVars, asmVars, envVars, finished, progress, histVars,
               cancel, winVars, cancel_calls, scanVars, resVars, sessVars, item,
               HAS_PATOOL, imgs, it_i, cancel_seen>>

\* if HAS_PATOOL: try: patoolib.extract_archive(...); success=True
ItemPatool ==
    /\ it_pc = "patool"
    /\ IF HAS_PATOOL
       THEN /\ attempts' = Append(attempts, "patool")
            /\ it_pc' = IF "patool" \in item.works THEN "walk" ELSE "7z"
       ELSE it_pc' = "7z" /\ UNCHANGED attempts
    /\ UNCHANGED <<itemFrame, message, it_ret>>

\* if not success: if run_7z_extract(item,tmp): success=True
Item7z ==
    /\ it_pc = "7z"
    /\ attempts' = Append(attempts, "7z")
    /\ it_pc' = IF "7z" \in item.works THEN "walk" ELSE "unpack"
    /\ UNCHANGED <<itemFrame, message, it_ret>>

\* if not success: try: shutil.unpack_archive(item,tmp); success=True
\* if not success: self.message.emit(tr("cannot_extract")); return []
ItemUnpack ==
    /\ it_pc = "unpack"
    /\ attempts' = Append(attempts, "unpack")
    /\ IF "unpack" \in item.works
       THEN it_pc' = "walk" /\ UNCHANGED <<message, it_ret>>
       ELSE /\ message' = (Msg("cannot_extract", 0))
            /\ it_ret' = [v |-> <<>>]
            /\ it_pc' = "ret"
    /\ UNCHANGED itemFrame

\* for f in sorted(files, key=natural_sort_key): if self._cancel: break; append
ItemWalk ==
    /\ it_pc = "walk"
    /\ IF it_i = item.pages
       THEN /\ it_ret' = [v |-> imgs] /\ it_pc' = "ret"
            /\ UNCHANGED <<imgs, it_i, cancel_seen>>
       ELSE IF cancel
            THEN /\ cancel_seen' = TRUE
                 /\ it_ret' = [v |-> imgs] /\ it_pc' = "ret"
                 /\ UNCHANGED <<imgs, it_i>>
            ELSE /\ imgs' = Append(imgs, ItemImage(created, it_i + 1))
                 /\ it_i' = it_i + 1
                 /\ UNCHANGED <<it_pc, it_ret, cancel_seen>>
    /\ UNCHANGED <<cfgVars, runVars, asmVars, envVars, sigVars, histVars, cancel,
                   winVars, cancel_calls, scanVars, resVars, sessVars, item,
                   HAS_PATOOL, attempts>>

\* ------------------------------------ ContentsEditor.move_up and move_down
\* sorted({idx.row() for idx in self.list_widget.selectedIndexes()})
RECURSIVE SortedRows(_)
SortedRows(S) ==
    IF S = {} THEN <<>>
    ELSE LET m == CHOOSE x \in S : \A y \in S : x <= y
         IN <<m>> \o SortedRows(S \ {m})

Reverse(s) == [k \in DOMAIN s |-> s[Len(s) + 1 - k]]

\* del s[j] and s.insert(k, x) on rows counted from 0; insert clamps k
DelAt(s, j) == SubSeq(s, 1, j) \o SubSeq(s, j + 2, Len(s))
InsertAt(s, k, x) ==
    LET kk == IF k > Len(s) THEN Len(s) ELSE k
    IN SubSeq(s, 1, kk) \o <<x>> \o SubSeq(s, kk + 1, Len(s))

\* for j in js: del s[j], one after the other on the list as it then is;
\* a row beyond the end raises IndexError and leaves the list as it then is
RECURSIVE DelEach(_, _)
DelEach(s, js) ==
    IF js = <<>> THEN [raised |-> FALSE, s |-> s]
    ELSE IF Head(js) >= Len(s) THEN [raised |-> TRUE, s |-> s]
    ELSE DelEach(DelAt(s, Head(js)), Tail(js))

\* for k, item in enumerate(block): s.insert(at+k, item)
RECURSIVE InsertBlock(_, _, _)
InsertBlock(s, at, block) ==
    IF block = <<>> THEN s
    ELSE InsertBlock(InsertAt(s, at, Head(block)), at + 1, Tail(block))

\* block = [self.files[j] for j in sel]
Block(s, sel) == [k \in DOMAIN sel |-> s[sel[k] + 1]]

editorFrame == <<notUI_but_res, winVars, srcVars, content_override, missing,
                 items, item_i, resolved, res_pc, raised_at>>

\* the user selects rows of the list (ExtendedSelection)
Select ==
    /\ res_pc = "editor"
    /\ \E S \in SUBSET (0..(Len(files) - 1)) : S # selected /\ selected' = S
    /\ UNCHANGED <<editorFrame, files>>

\* what a move leaves: the list and the selection; reload() drops the
\* selection and setCurrentRow selects one row; an IndexError leaves the
\* handler at once
Moved(d, at, block, row) ==
    IF d.raised THEN files' = d.s /\ UNCHANGED selected
    ELSE files' = InsertBlock(d.s, at, block) /\ selected' = {row}

\* ContentsEditor.move_up
move_up ==
    /\ res_pc = "editor"
    /\ LET sel == SortedRows(selected) IN
          IF sel = <<>> \/ sel[1] = 0 \/ sel[Len(sel)] >= Len(files)
          THEN UNCHANGED <<files, selected>>
          ELSE Moved(DelEach(files, sel), sel[1] - 1, Block(files, sel),
                     sel[1] - 1)
    /\ UNCHANGED editorFrame

\* ContentsEditor.move_down
move_down ==
    /\ res_pc = "editor"
    /\ LET sel == SortedRows(selected) IN
          IF sel = <<>> \/ sel[Len(sel)] >= Len(files) - 1
          THEN UNCHANGED <<files, selected>>
          ELSE Moved(DelEach(files, Reverse(sel)),
                     sel[Len(sel)] + 1 - Len(sel) + 1, Block(files, sel),
                     sel[Len(sel)] + 1)
    /\ UNCHANGED editorFrame

\* ------------------------------------------- the sources of the window
\* add_sources: s=make_source(f); self.sources.append(s)
add_sources ==
    /\ ~closed /\ next_id <= MaxSources
    /\ \E ty \in SourceTypes : sources' = Append(sources, Source(next_id, ty))
    /\ next_id' = next_id + 1
    /\ UNCHANGED <<notUI_but_sess, winVars, selected, etmp, ecreated>>

\* what prepare lists for src once its working directory is d (0: the path)
Listed(src, d) ==
    IF src.override.kind \in {"path", "temp"}
    THEN \* [f for f in content_override if os.path.exists(f)]
         IF src.override.kind = "temp" /\ src.override.dir \notin etmp
         THEN [kind |-> "empty", dir |-> 0]
         ELSE src.override
    ELSE IF d = 0 THEN [kind |-> "path", dir |-> 0]
         ELSE [kind |-> "temp", dir |-> d]

\* the dialog closes: accept stores the list, emptied by the user or not;
\* reject stores nothing
Closing(src, listed) ==
    {src, [src EXCEPT !.override = listed],
          [src EXCEPT !.override = [kind |-> "empty", dir |-> 0]]}

\* on_double: ContentsEditor(self, src) runs prepare; dlg.exec()
on_double ==
    /\ ~closed
    /\ \E row \in DOMAIN sources :
          LET src == sources[row] IN
          IF src.type = "archive"
          THEN /\ ecreated < MaxOpens
               \* tmp = tempfile.mkdtemp(prefix="ex_contents_")
               /\ ecreated' = ecreated + 1
               /\ etmp' = etmp \cup {ecreated + 1}
               /\ \/ \* every backend failed: working_dir=None; return
                     \E s \in Closing(src, [kind |-> "empty", dir |-> 0]) :
                         sources' = [sources EXCEPT ![row] = s]
                  \/ \* self.working_dir=tmp; self.src["temp"]=tmp
                     LET own == [src EXCEPT !.temp = ecreated + 1] IN
                     \E s \in Closing(own, Listed(src, ecreated + 1)) :
                         sources' = [sources EXCEPT ![row] = s]
          ELSE /\ \E s \in Closing(src, Listed(src, 0)) :
                     sources' = [sources EXCEPT ![row] = s]
               /\ UNCHANGED <<etmp, ecreated>>
    /\ UNCHANGED <<notUI_but_sess, winVars, selected, next_id>>

\* ImageToPDF.delete_selected: s=self.sources.pop(r); rmtree(s["temp"])
delete_selected ==
    /\ ~closed
    /\ \E sel \in (SUBSET DOMAIN sources) \ {{}} :
          /\ sources' = WithoutRows(sources, sel)
          /\ etmp' = etmp \ {sources[k].temp : k \in sel}
    /\ UNCHANGED <<notUI_but_sess, winVars, selected, ecreated, next_id>>

\* ImageToPDF.move_up: the first selected row changes place with the one above
window_move_up ==
    /\ ~closed
    /\ \E r \in DOMAIN sources :
          /\ r > 1
          /\ sources' = [sources EXCEPT ![r - 1] = sources[r], ![r] = sources[r - 1]]
    /\ UNCHANGED <<notUI_but_sess, winVars, selected, etmp, ecreated, next_id>>

\* clear_all: rmtree every temp; self.sources.clear()
clear_all ==
    /\ ~closed /\ sources # <<>>
    /\ etmp' = etmp \ TempsOf(sources)
    /\ sources' = <<>>
    /\ UNCHANGED <<notUI_but_sess, winVars, selected, ecreated, next_id>>

\* ----------------------------------------------------------- specifications
Worker == Start \/ LoopHead \/ Items \/ GatherEnter \/ GatherLoop \/ Pages
          \/ Assemble \/ RetAsm \/ MergeCheck \/ MergeLoop \/ MergeWrite
          \/ Cleanup \/ EmitRead \/ Emit \/ ExceptEmit

Next == Worker \/ Cancel

Spec == Init /\ [][Next]_vars

\* cancel() called again, from any thread, while the flag is set
CancelAgain ==
    /\ pc # "done" /\ cancel
    /\ cancel_calls < MaxCancels
    /\ cancel' = CancelAssigns
    /\ cancel_calls' = cancel_calls + 1
    /\ UNCHANGED <<cfgVars, runVars, asmVars, envVars, sigVars, histVars,
                   winVars, scanVars, resVars, itemVars, sessVars>>

\* a run of one source with any number of cancel() calls
InitCancel == Init /\ total_sources = 1

CancelNext == Worker \/ Cancel \/ CancelAgain

CancelSpec == InitCancel /\ [][CancelNext]_vars

\* no thread, no window activity: the state the side specifications start from
InitIdle ==
    /\ total_sources = 1 /\ merge = FALSE /\ out_format = "PDF"
    /\ HAS_IMG2PDF = FALSE /\ HAS_PYPDF = FALSE /\ HAS_FITZ = FALSE
    /\ pc = "idle" /\ si = 0 /\ all_images = <<>> /\ out_path = None
    /\ InitThread

InitScan ==
    /\ InitIdle /\ InitWindow /\ IdleCalls /\ IdleResolve /\ IdleItem
    /\ IdleSession
    /\ listing \in Listings /\ scan_pc = "list" /\ scan = None

ScanNext == ScanFolder

\* the editor is open on a source that has no override yet
InitResolve ==
    /\ InitIdle /\ InitWindow /\ IdleCalls /\ IdleScan /\ IdleItem
    /\ IdleSession
    /\ files \in EditorLists
    /\ content_override = [set |-> FALSE, files |-> <<>>]
    /\ missing = {} /\ items = <<>> /\ item_i = 0 /\ resolved = <<>>
    /\ res_pc = "editor" /\ raised_at = 0

ResolveNext == editor_delete_selected \/ accept \/ reject \/ Vanish
               \/ ResolveItems \/ GatherItem

ResolveSpec == InitResolve /\ [][ResolveNext]_vars

ScanSpec == InitScan /\ [][ScanNext]_vars

\* one call of _gather_images_for_item on a file, with cancel() at any moment
InitItem ==
    /\ total_sources = 1 /\ merge = FALSE /\ out_format = "PDF"
    /\ HAS_IMG2PDF = FALSE /\ HAS_PYPDF = FALSE
    /\ pc = "idle" /\ si = 0 /\ all_images = <<>> /\ out_path = None
    /\ InitThread /\ InitWindow /\ IdleCalls /\ IdleScan /\ IdleResolve
    /\ IdleSession
    /\ item \in FileItems
    /\ HAS_FITZ \in (IF item.kind = "pdf" THEN BOOLEAN ELSE {FALSE})
    /\ HAS_PATOOL \in (IF item.kind = "archive" THEN BOOLEAN ELSE {FALSE})
    /\ it_pc = "entry" /\ imgs = <<>> /\ it_i = 0 /\ attempts = <<>>
    /\ cancel_seen = FALSE /\ it_ret = None

ItemNext == ItemEnter \/ ItemPage \/ ItemPatool \/ Item7z \/ ItemUnpack
            \/ ItemWalk \/ Cancel

ItemSpec == InitItem /\ [][ItemNext]_vars

\* the editor is open on a list; the user selects rows and moves them
InitEditor ==
    /\ InitIdle /\ InitWindow /\ IdleCalls /\ IdleScan /\ IdleItem
    /\ files \in EditorLists
    /\ content_override = [set |-> FALSE, files |-> <<>>]
    /\ missing = {} /\ items = <<>> /\ item_i = 0 /\ resolved = <<>>
    /\ res_pc = "editor" /\ raised_at = 0
    /\ IdleSession

EditorNext == Select \/ move_up \/ move_down

EditorSpec == InitEditor /\ [][EditorNext]_vars

\* a session of the window: the sources restored at start-up, no thread
InitSession ==
    /\ InitIdle /\ InitWindow /\ IdleCalls /\ IdleScan /\ IdleResolve /\ IdleItem
    /\ selected = {}
    /\ \E n \in 0..(MaxSources - 1) :
          /\ \E ty \in [1..n -> SourceTypes] :
                sources = [k \in 1..n |-> Source(k, ty[k])]
          /\ next_id = n + 1
    /\ etmp = {} /\ ecreated = 0

SessionNext == add_sources \/ on_double \/ delete_selected \/ window_move_up
               \/ clear_all \/ convert_dialog \/ Finish \/ closeEvent

SessionSpec == InitSession /\ [][SessionNext]_vars

\* the worker thread, once started, runs to its end
FairSpec == Spec /\ WF_vars(Worker)

AsmNext == Assemble \/ Cancel

AsmSpec == InitAsm /\ [][AsmNext]_vars

UINext == on_dpi_cb \/ dpi_spin_edit \/ convert_dialog \/ cancel_operation
          \/ Rasterize \/ Finish \/ closeEvent

UISpec == InitUI /\ [][UINext]_vars

\* ------------------------------------------------------------------- claims
\* C1, as stated: a run during which cancel() was invoked at any moment
\* before the emission emits the empty list.
C1_CancelledEmitsEmpty ==
    pc = "done" /\ cancel => finished = << <<>> >>

\* C1, amended: a run during which cancel() was invoked before the worker's
\* last read of the flag (the argument of the emit on line 431) emits the
\* empty list, whatever had been appended to outputs.
C1_CancelBeforeLastReadEmitsEmpty ==
    pc = "done" /\ cancelAt \in {"run", "asm"} => finished = << <<>> >>

\* a cancelled run that had produced outputs and emitted the empty list
C1_Witness ==
    /\ pc = "done" /\ cancelAt \in {"run", "asm"}
    /\ outputs # <<>> /\ finished = << <<>> >>

\* C2: when cancel() fell inside an assembler call, the file at that call's
\* output path is gone when the run has ended.
C2_NoFileOfCancelledCall ==
    pc = "done" /\ cancelPath # None => ~Exists(cancelPath)

C4_CompleteOrAbsent ==
    pc = "ret_asm" =>
        IF outp = None THEN ~Exists(out_path)
        ELSE Exists(outp) /\ disk[outp].complete

\* C5: after a merge that reported success, merged.pdf holds the pages of the
\* per-source PDFs, source after source.
C5_MergedIsConcatenation ==
    pc = "done" /\ ~cancel /\ message = Msg("merged", 0) =>
        /\ Exists(MergedPath) /\ disk[MergedPath].complete
        /\ disk[MergedPath].pages = Flatten(produced)

\* C6: never are two worker threads running with neither of them cancelled.
C6_OneJobInFlight ==
    Cardinality({t \in DOMAIN threads :
                    threads[t].st = "running" /\ ~threads[t].cancel}) <= 1

\* C7: every run emits on finished_signal at most once at any time, and
\* eventually has ended having emitted exactly once.
C7_EmitsExactlyOnce ==
    /\ [](Len(finished) <= 1)
    /\ [](pc = "done" => Len(finished) = 1)
    /\ <>(pc = "done" /\ Len(finished) = 1)

\* a run that met an injected error and a cancellation, and emitted once
C7_Witness ==
    pc = "done" /\ Len(finished) = 1 /\ faults > 0 /\ cancel

\* C8, as stated: without cancellation or archive error, _make_cbz returns an
\* archive of exactly K entries, entry k named by the padded index k and the
\* original extension of page k and holding page k.
C8_ExactlyKEntries ==
    pc = "ret_asm" /\ out_format = "CBZ" /\ ~cancel /\ ~ioFault =>
        /\ outp # None
        /\ Len(disk[outp].pages) = Len(all_images)
        /\ \A k \in DOMAIN all_images :
              disk[outp].pages[k] =
                  [name |-> [stem |-> Pad4(k), ext |-> all_images[k].ext],
                   page |-> PageId(all_images[k])]

\* the entries of the pages from index k on whose write succeeds
RECURSIVE WrittenFrom(_, _)
WrittenFrom(images, k) ==
    IF k > Len(images) THEN <<>>
    ELSE (IF images[k].ok
          THEN <<[name |-> [stem |-> Pad4(k), ext |-> Lower(images[k].ext)],
                  page |-> PageId(images[k])]>>
          ELSE <<>>) \o WrittenFrom(images, k + 1)

\* C8, amended: the archive _make_cbz returns is complete and holds, in input
\* order, one entry for each page whose write succeeds, named by the padded
\* 1-based input index of the page and its extension in lower case.
C8_EntryPerWrittenPage ==
    pc = "ret_asm" /\ out_format = "CBZ" /\ outp # None =>
        /\ Exists(outp) /\ disk[outp].complete
        /\ disk[outp].pages = WrittenFrom(all_images, 1)

\* an archive of MaxPages pages, one of them unreadable, one an upper-case PNG
C8_Witness ==
    /\ pc = "ret_asm" /\ out_format = "CBZ" /\ outp # None
    /\ Len(all_images) = MaxPages /\ failed # {}
    /\ \E k \in DOMAIN all_images : all_images[k].ok /\ all_images[k].ext = "PNG"

\* C9: without cancellation or I/O error, assembling K pages of which M are
\* unreadable returns a document of K-M pages.
C9_UnreadablePagesSkipped ==
    pc = "ret_asm" /\ out_format = "PDF" /\ all_images # <<>>
       /\ ~cancel /\ ~ioFault =>
        /\ outp # None
        /\ Len(disk[outp].pages) =
              Len(all_images)
              - Cardinality({k \in DOMAIN all_images : ~all_images[k].ok})

\* C10: the rasterizer gets an explicit DPI only from a job submitted with
\* the Custom DPI box checked.
C10_ExplicitDpiOnlyWhenCustom ==
    \A c \in raster_calls : c.explicit => c.custom

\* C11: the flag, once set, stays set, and a call of cancel() that finds it
\* set changes nothing of the thread, its files and its signals, so the run
\* goes on exactly as after the first call.
C11_CancelIdempotent ==
    [][/\ cancel => cancel'
       /\ cancel_calls' # cancel_calls =>
              UNCHANGED <<cfgVars, runVars, asmVars, envVars, sigVars, cancel>>]_vars

\* a run cancelled MaxCancels + 1 times that ended with the empty result
C11_Witness ==
    pc = "done" /\ cancel /\ cancel_calls = MaxCancels /\ finished = << <<>> >>

\* C12: scanning a folder never fails and returns exactly the image files of
\* the listing, each once, in natural order of their names.
C12_FolderResolvesNaturally ==
    scan_pc = "done" =>
        /\ ~scan.raised
        /\ Range(scan.imgs) = {n \in Range(listing) : IsImageName(n)}
        /\ Len(scan.imgs) = Cardinality({n \in Range(listing) : IsImageName(n)})
        /\ \A k \in 1..(Len(scan.imgs) - 1) :
              ~KeyLess(natural_sort_key(scan.imgs[k + 1]),
                       natural_sort_key(scan.imgs[k]))

\* C13: a source whose override was set by accepting the editor resolves to
\* the pages of the override entries, entry after entry, and to no page
\* found by scanning the source path.
C13_OverrideIsSoleAuthority ==
    res_pc = "done" /\ content_override.set =>
        /\ \A k \in DOMAIN resolved : resolved[k].from # SourcePath.id
        /\ resolved = Flatten([k \in DOMAIN content_override.files |->
                                  ItemPages(content_override.files[k])])

\* C14: an override entry whose path is gone contributes no page and never
\* raises; the entries around it are resolved in order.
C14_MissingEntriesDropped ==
    /\ res_pc = "except" => items[raised_at].id \notin missing
    /\ res_pc = "done" /\ content_override.set /\ content_override.files # <<>> =>
          /\ \A k \in DOMAIN resolved : resolved[k].from \notin missing
          /\ resolved =
                Flatten([k \in DOMAIN items |->
                            IF items[k].id \in missing THEN <<>>
                            ELSE IF items[k].kind = "image"
                                 THEN <<[from |-> items[k].id, n |-> 1]>>
                                 ELSE <<[from |-> items[k].id, n |-> 1],
                                        [from |-> items[k].id, n |-> 2]>>])

\* an override of three entries whose middle one is gone, resolved to the end
C14_Witness ==
    /\ res_pc = "done" /\ Len(items) = MaxEntries
    /\ items[2].id \in missing /\ items[1].id \notin missing
    /\ items[MaxEntries].id \notin missing
    /\ resolved # <<>>

C16_OnlyListedFilesRemain ==
    pc = "done" => DOMAIN disk \subseteq Range(finished[1])

\* the sources whose pages a file holds
SrcsOf(f) ==
    IF f.kind = "cbz" THEN {f.pages[k].page.src : k \in DOMAIN f.pages}
    ELSE {f.pages[k].src : k \in DOMAIN f.pages}

\* C17: without merge and without cancellation the listed paths are pairwise
\* distinct and the files hold pages of distinct sources, in source order.
C17_OneFilePerSource ==
    pc = "done" /\ ~merge /\ ~cancel /\ message.tag # "worker_error" =>
        \A a, b \in DOMAIN outputs :
            a < b =>
                /\ outputs[a] # outputs[b]
                /\ \A x \in SrcsOf(disk[outputs[a]]), y \in SrcsOf(disk[outputs[b]]) :
                      x < y

\* C18: in a run that was not cancelled and met no internal fault, the merge
\* is performed exactly when merge is set, the format is PDF and some source
\* produced an output; a merge that succeeds makes the result the merged
\* path alone, and without merge or with CBZ the result is the outputs list.
C18_MergeExactlyWhenRequested ==
    pc = "done" /\ ~cancel /\ message.tag # "worker_error" =>
        /\ message.tag \in {"merged", "merge_failed"}
              <=> (merge /\ out_format = "PDF" /\ outputs # <<>>)
        /\ message.tag = "merged" => finished = << <<MergedPath>> >>
        /\ (~merge \/ out_format = "CBZ") => finished = <<outputs>>

\* C19: after a failed merge the result is the list of per-source outputs
\* and every listed file is complete and holds what its source produced.
C19_MergeFailureKeepsOutputs ==
    pc = "done" /\ ~cancel /\ message = Msg("merge_failed", 0) =>
        /\ finished = <<outputs>>
        /\ Len(outputs) = Len(produced)
        /\ \A k \in DOMAIN outputs :
              /\ Exists(outputs[k]) /\ disk[outputs[k]].complete
              /\ disk[outputs[k]].pages = produced[k]

\* the messages of the source-local failures
SourceFailureTags ==
    {"pdf_render_req", "pdf_render_error", "cannot_extract", "cbz_error",
     "pdf_error", "img2pdf_failed"}

\* C20: a step that reports a source-local failure stays inside the loop over
\* the sources, the return of an assembler (with or without an output) is
\* followed by the next source unless the run is cancelled, and a run that
\* was not cancelled and met no internal fault has processed every source
\* and emits every output the assemblers returned.
C20_SourceFailureDoesNotAbort ==
    /\ [][message'.tag \in SourceFailureTags /\ message' # message =>
             pc' \in {"pages", "ret_asm", "pil_first"}]_vars
    /\ [][pc = "ret_asm" /\ pc' # pc /\ ~cancel => pc' = "loop"]_vars
    /\ [][pc = "loop" /\ pc' # pc /\ ~cancel /\ si < total_sources =>
             si' = si + 1 /\ pc' = "items"]_vars
    /\ [](pc = "done" /\ ~cancel /\ message.tag # "worker_error" =>
             /\ si = total_sources /\ processed_sources = total_sources
             /\ finished = <<outputs>>)

\* a run of two sources in which an injected failure cost the first source
\* its output and the second source's file is the result
C20_Witness ==
    /\ pc = "done" /\ ~cancel /\ total_sources > 1 /\ faults > 0
    /\ message.tag # "worker_error"
    /\ processed_sources = total_sources
    /\ Len(outputs) = 1 /\ finished = <<outputs>>
    /\ SrcsOf(disk[outputs[1]]) = {total_sources}

\* C21: progress is emitted only for a source whose items were gathered, with
\* the value processed/N*100 of the sources processed so far; the values never
\* decrease, never exceed 100, and 100 is emitted exactly with the last of
\* the N sources.
C21_ProgressCountsProcessedSources ==
    [][progress' # progress =>
          /\ pc = "ret_asm" \/ (pc = "pages" /\ cur # None)
          /\ processed_sources' = processed_sources + 1
          /\ progress' = (processed_sources' * 100) \div total_sources
          /\ progress' >= progress /\ progress' <= 100
          /\ progress' = 100 <=> processed_sources' = total_sources]_vars

\* C22: from the exception on, the worker starts no source and touches no
\* output; it removes the temp directories, emits the diagnostic message and
\* the empty result, whatever outputs holds.
C22_ExceptionAbortsWithEmptyResult ==
    /\ [][(pc \in {"except", "except_emit"}) =>
             UNCHANGED <<si, outputs, processed_sources, progress, disk>>]_vars
    /\ [][pc = "except" /\ pc' # pc => pc' = "except_emit" /\ tmpfs' = {}]_vars
    /\ [][pc = "except_emit" /\ pc' # pc =>
             /\ pc' = "done" /\ message' = Msg("worker_error", 0)
             /\ finished' = Append(finished, <<>>)]_vars
    /\ [](pc = "done" /\ message = Msg("worker_error", 0) =>
             finished = << <<>> >> /\ tmpfs = {})

\* a run whose second source raised after the first, an extracted archive,
\* had produced its output
C22_Witness ==
    /\ pc = "done" /\ message = Msg("worker_error", 0)
    /\ outputs # <<>> /\ Exists(outputs[1]) /\ created > 0
    /\ processed_sources < total_sources
    /\ finished = << <<>> >> /\ tmpfs = {}

\* C23: while the flag is set the worker starts no source (si stays, no
\* "processing" message is emitted) and enters no assembler; an assembler
\* call that is under way may go on to its return.
C23_NothingStartsAfterCancel ==
    [][cancel =>
          /\ si' = si
          /\ message'.tag = "processing" => message' = message
          /\ (pc \notin AsmPcs) => (pc' \notin AsmPcs)]_vars

\* a run of two sources cancelled during the first one: the second source was
\* never started and the run has ended
C23_Witness ==
    /\ pc = "done" /\ cancel /\ cancelAt \in {"run", "asm"}
    /\ total_sources = MaxSources /\ si = 1
    /\ finished = << <<>> >>

\* C24: a rasterization whose page loop read the flag set returns no page.
C24_CancelledRasterReturnsNothing ==
    it_pc = "ret" /\ item.kind = "pdf" /\ cancel_seen => it_ret.v = <<>>

\* the backends in the order (a) external tool, (b) archive library,
\* (c) built-in unpack routine
BackendRank(b) == CASE b = "7z" -> 1 [] b = "patool" -> 2 [] b = "unpack" -> 3

\* C25: the backends are attempted in the order external tool, archive
\* library, built-in routine; every attempt but the last one failed; and the
\* extraction is reported as failed only when the last of them failed too.
C25_BackendsInFixedOrder ==
    /\ \A a, b \in DOMAIN attempts :
          a < b => /\ BackendRank(attempts[a]) < BackendRank(attempts[b])
                   /\ attempts[a] \notin item.works
    /\ it_pc = "walk" => attempts[Len(attempts)] \in item.works
    /\ message = Msg("cannot_extract", 0) =>
          /\ it_ret = [v |-> <<>>]
          /\ \A k \in DOMAIN attempts : attempts[k] \notin item.works
          /\ attempts[Len(attempts)] = "unpack"

\* the position of entry x in the list s
PosIn(s, x) == CHOOSE k \in DOMAIN s : s[k] = x

\* the entries of s at the rows R keep their order in u
KeepOrder(s, u, R) ==
    \A a, b \in R :
        a < b => /\ s[a] \in Range(u) /\ s[b] \in Range(u)
                 /\ PosIn(u, s[a]) < PosIn(u, s[b])

\* C26: a move leaves a permutation of the list in which the selected
\* entries keep their relative order and the unselected ones keep theirs.
C26_MoveIsBlockMove ==
    [][files' # files =>
          /\ Len(files') = Len(files) /\ Range(files') = Range(files)
          /\ KeepOrder(files, files', {r + 1 : r \in selected})
          /\ KeepOrder(files, files',
                       DOMAIN files \ {r + 1 : r \in selected})]_vars

\* C27: every temp directory of the editor that exists is the temp of a
\* source of the window, and none exists once the window is closed.
C27_EditorTempsOwnedAndRemoved ==
    /\ etmp \subseteq TempsOf(sources)
    /\ closed => etmp = {}

\* C28: while a thread runs, its sources are those it was started with, and
\* every temp directory its override lists name exists.
C28_SnapshotStaysValid ==
    /\ [][\A th \in DOMAIN threads : threads'[th].sources = threads[th].sources]_vars
    /\ [](\A th \in DOMAIN threads :
             threads[th].st = "running" =>
                 \A k \in DOMAIN threads[th].sources :
                     threads[th].sources[k].override.kind = "temp"
                         => threads[th].sources[k].override.dir \in etmp)

\* the image handles the assembler holds open
OpenHandles == (IF first = None THEN 0 ELSE 1) + Len(others)

\* C29: the PDF assembler never holds more than one image open, and holds
\* none when it returns.
C29_OneImageOpenAtATime ==
    /\ OpenHandles <= 1
    /\ pc = "ret_asm" => OpenHandles = 0

====
